---- MODULE Spec2Model ----
(***************************************************************************)
(* Model of find_itemsets_rules.py: level-wise frequent itemset search     *)
(* (Apriori) and association rule derivation.                              *)
(*                                                                         *)
(* Items are the whitespace separated tokens of the data file.  They are   *)
(* modelled as the integers 1..NumItems, the integer order standing for    *)
(* the string order used by list.sort().                                   *)
(*                                                                         *)
(* A Python dict is modelled as the sequence of its entries in insertion   *)
(* order, each entry a record [key, val].  The program uses two key shapes *)
(* in one dict: the bare item (a str) and a tuple of items.  A key is the  *)
(* record [bare, tup]: Bare(x) is the str x, Tup(t) is the tuple t, and    *)
(* Bare(x) # Tup(<<x>>) just as "a" != ("a",) in Python.                   *)
(*                                                                         *)
(* A float is modelled as the exact rational <<numerator, denominator>>.   *)
(***************************************************************************)
EXTENDS Integers, Sequences, FiniteSets

\* ---------------------------------------------------------------- bounds
NumItems ==
  3
MaxRowLen ==
  3
MaxRows ==
  2
MaxSupport ==
  2

Items == 1..NumItems

\* A row of the data file after row.split(): a list of tokens, repeats allowed.
Rows == UNION {[1..n -> Items] : n \in 0..MaxRowLen}

\* The data file: a list of rows.
Files == UNION {[1..n -> Rows] : n \in 0..MaxRows}

\* Values int(input()) may deliver for the support threshold; -1 is the
\* quit sentinel of the prompt.
SupportInputs == (0 - 2)..MaxSupport

\* Values float(input()) may deliver for the confidence threshold, as
\* rationals <<num, den>>; -1 is the quit sentinel of the prompt.
ConfInputs == {<<0 - 1, 1>>, <<0, 1>>, <<1, 2>>, <<1, 1>>}

\* ------------------------------------------------------------- dict keys
Bare(x) == [bare |-> TRUE, tup |-> <<x>>]
Tup(t) == [bare |-> FALSE, tup |-> t]

Range(s) == {s[i] : i \in DOMAIN s}

\* ------------------------------------------------------------ dict model
DictKeys(d) == {d[i].key : i \in DOMAIN d}

DictHas(d, key) == key \in DictKeys(d)

DictGet(d, key) == d[CHOOSE i \in DOMAIN d : d[i].key = key].val

\* if key in d: d[key] += 1  else: d[key] = 1
DictIncr(d, key) ==
  IF DictHas(d, key)
    THEN [i \in DOMAIN d |->
            IF d[i].key = key THEN [key |-> key, val |-> d[i].val + 1] ELSE d[i]]
    ELSE Append(d, [key |-> key, val |-> 1])

\* variant: the merge keeps only the new level
DictMerge_onlyNew(a, b) == b

\* {**a, **b}
DictMerge(a, b) ==
  [i \in DOMAIN a |->
     IF DictHas(b, a[i].key)
       THEN [key |-> a[i].key, val |-> DictGet(b, a[i].key)]
       ELSE a[i]]
  \o SelectSeq(b, LAMBDA e : ~DictHas(a, e.key))

\* ------------------------------------------- generate_all_single_candidates
RECURSIVE CountRow(_, _)
CountRow(c, row_list) ==
  IF row_list = <<>>
    THEN c
    ELSE CountRow(DictIncr(c, Bare(Head(row_list))), Tail(row_list))

RECURSIVE ReadRows(_, _, _)
ReadRows(c, baskets, f) ==
  IF f = <<>>
    THEN [c_1 |-> c, all_baskets |-> baskets]
    ELSE ReadRows(CountRow(c, Head(f)), Append(baskets, Range(Head(f))), Tail(f))

generate_all_single_candidates(f) == ReadRows(<<>>, <<>>, f)

\* ---------------------------------------------------------- filter_candidates
\* variant: total_count >= support
filter_candidates_ge(c, sup) == SelectSeq(c, LAMBDA e : e.val >= sup)

filter_candidates(c, sup) == SelectSeq(c, LAMBDA e : e.val > sup)

\* ---------------------------------------------------- generate_next_candidates
\* variant: list(S); sort(reverse=True)
RECURSIVE SortedList_desc(_)
SortedList_desc(S) ==
  IF S = {}
    THEN <<>>
    ELSE LET m == CHOOSE x \in S : \A y \in S : x >= y
         IN  <<m>> \o SortedList_desc(S \ {m})

\* list(S); sort()
RECURSIVE SortedList(_)
SortedList(S) ==
  IF S = {}
    THEN <<>>
    ELSE LET m == CHOOSE x \in S : \A y \in S : x <= y
         IN  <<m>> \o SortedList(S \ {m})

\* list(itertools.combinations(s, n)), in itertools' emission order
RECURSIVE Combinations(_, _)
Combinations(s, n) ==
  IF n = 0 THEN << <<>> >>
  ELSE IF Len(s) < n THEN <<>>
  ELSE LET withHead == Combinations(Tail(s), n - 1)
       IN  [i \in DOMAIN withHead |-> <<Head(s)>> \o withHead[i]]
           \o Combinations(Tail(s), n)

RECURSIVE CountCandidates(_, _, _)
CountCandidates(c, current_candidates, basket) ==
  IF current_candidates = <<>>
    THEN c
    ELSE LET tup == Head(current_candidates)
         IN  CountCandidates(
               IF Range(tup) \subseteq basket THEN DictIncr(c, Tup(tup)) ELSE c,
               Tail(current_candidates), basket)

\* variant: the basket is not intersected with l_1_set
FrequentItems_all(l1, basket) == basket

\* l_1_set & basket: the str keys of l_1 that are items of the basket
FrequentItems(l1, basket) == {x \in basket : Bare(x) \in DictKeys(l1)}

RECURSIVE ScanBaskets(_, _, _, _)
ScanBaskets(c, baskets, l1, n) ==
  IF baskets = <<>>
    THEN c
    ELSE LET frequent_items == SortedList(FrequentItems(l1, Head(baskets)))
             current_candidates == Combinations(frequent_items, n)
         IN  ScanBaskets(CountCandidates(c, current_candidates, Head(baskets)),
                         Tail(baskets), l1, n)

\* variant: combinations(frequent_items, 2) whatever the level
generate_next_candidates_pairs(baskets, l1, n) == ScanBaskets(<<>>, baskets, l1, 2)

generate_next_candidates(baskets, l1, n) == ScanBaskets(<<>>, baskets, l1, n)

\* ------------------------------------------------ generate_association_rules
\* variant: the tuple is the key whatever its length
LookupKey_tuple(item) == Tup(item)

\* the key under which the antecedent's support is looked up
LookupKey(item) == IF Len(item) > 1 THEN Tup(item) ELSE Bare(item[1])

\* conf > conf_threshold on rationals <<num, den>>; the threshold's den is > 0
GreaterThan(conf, t) ==
  IF conf[2] > 0 THEN conf[1] * t[2] > t[1] * conf[2]
                 ELSE conf[1] * t[2] < t[1] * conf[2]

\* the combinations of sizes i..len(freq_itemset)-1 of one frequent itemset,
\* in the order the two inner loops visit them
RECURSIVE Antecedents(_, _)
Antecedents(freq_itemset, i) ==
  IF i >= Len(freq_itemset)
    THEN <<>>
    ELSE Combinations(freq_itemset, i) \o Antecedents(freq_itemset, i + 1)

\* the body of the innermost loop over the antecedents of one itemset;
\* acc is [status, rules], an exception ends the function
RECURSIVE MineItemset(_, _, _, _, _)
MineItemset(acc, entry, combination, afi, t) ==
  IF combination = <<>> \/ acc.status # "ok"
    THEN acc
    ELSE LET item == Head(combination)
             curr_item == Range(item)
             remaining_items == Range(entry.key.tup) \ curr_item
             lookup == LookupKey(item)
         IN  IF ~DictHas(afi, lookup)
               THEN [acc EXCEPT !.status = "KeyError"]
             ELSE IF DictGet(afi, lookup) = 0
               THEN [acc EXCEPT !.status = "ZeroDivisionError"]
             ELSE LET conf == <<entry.val, DictGet(afi, lookup)>>
                      rule == [antecedent |-> curr_item,
                               consequent |-> remaining_items,
                               support |-> entry.val,
                               conf |-> conf]
                  IN  MineItemset(
                        IF GreaterThan(conf, t)
                          THEN [acc EXCEPT !.rules = Append(@, rule)]
                          ELSE acc,
                        entry, Tail(combination), afi, t)

RECURSIVE MineAll(_, _, _, _)
MineAll(acc, gt1, afi, t) ==
  IF gt1 = <<>> \/ acc.status # "ok"
    THEN acc
    ELSE MineAll(MineItemset(acc, Head(gt1), Antecedents(Head(gt1).key.tup, 1), afi, t),
                 Tail(gt1), afi, t)

generate_association_rules(afi, gt1, t) ==
  MineAll([status |-> "ok", rules |-> <<>>], gt1, afi, t)

\* ------------------------------------------------------------------- state
VARIABLES
  pc,                              \* position in the program
  file,                            \* contents of T10I4D100K.dat
  support, conf_threshold,         \* the two prompted thresholds
  c_1, all_baskets,                \* result of generate_all_single_candidates
  l_1, l_k, k, c_k,                \* locals of apriori
  all_frequent_itemsets,
  all_itemsets_greater_than_1,
  association_rules,
  gen_calls                        \* the k of every generate_next_candidates call

vars == <<pc, file, support, conf_threshold, c_1, all_baskets, l_1, l_k, k, c_k,
          all_frequent_itemsets, all_itemsets_greater_than_1, association_rules,
          gen_calls>>

Init ==
  /\ pc = "prompt"
  /\ file \in Files
  /\ support = 0
  /\ conf_threshold = <<0, 1>>
  /\ c_1 = <<>>
  /\ all_baskets = <<>>
  /\ l_1 = <<>>
  /\ l_k = <<>>
  /\ k = 0
  /\ c_k = <<>>
  /\ all_frequent_itemsets = <<>>
  /\ all_itemsets_greater_than_1 = <<>>
  /\ association_rules = <<>>
  /\ gen_calls = <<>>

\* __main__: the two prompts; either sentinel ends the program
Prompt ==
  /\ pc = "prompt"
  /\ \E s \in SupportInputs, t \in ConfInputs :
       /\ support' = s
       /\ IF s = 0 - 1
            THEN pc' = "terminated" /\ UNCHANGED conf_threshold
            ELSE /\ conf_threshold' = t
                 /\ pc' = IF t[1] = 0 - 1 THEN "terminated" ELSE "read"
  /\ UNCHANGED <<file, c_1, all_baskets, l_1, l_k, k, c_k, all_frequent_itemsets,
                 all_itemsets_greater_than_1, association_rules, gen_calls>>

ReadFile ==
  /\ pc = "read"
  /\ LET r == generate_all_single_candidates(file)
     IN  c_1' = r.c_1 /\ all_baskets' = r.all_baskets
  /\ pc' = "apriori"
  /\ UNCHANGED <<file, support, conf_threshold, l_1, l_k, k, c_k,
                 all_frequent_itemsets, all_itemsets_greater_than_1,
                 association_rules, gen_calls>>

\* apriori, up to the loop head
apriori_enter ==
  /\ pc = "apriori"
  /\ l_1' = filter_candidates(c_1, support)
  /\ all_frequent_itemsets' = l_1'
  /\ l_k' = l_1'
  /\ k' = 2
  /\ all_itemsets_greater_than_1' = <<>>
  /\ pc' = "loop"
  /\ UNCHANGED <<file, support, conf_threshold, c_1, all_baskets, c_k,
                 association_rules, gen_calls>>

\* one iteration of the while loop of apriori
apriori_level ==
  /\ pc = "loop"
  /\ Len(l_k) # 0
  /\ c_k' = generate_next_candidates(all_baskets, l_1, k)
  /\ gen_calls' = Append(gen_calls, k)
  /\ l_k' = filter_candidates(c_k', support)
  /\ all_frequent_itemsets' = DictMerge(all_frequent_itemsets, l_k')
  /\ all_itemsets_greater_than_1' = DictMerge(all_itemsets_greater_than_1, l_k')
  /\ k' = k + 1
  /\ UNCHANGED <<pc, file, support, conf_threshold, c_1, all_baskets, l_1,
                 association_rules>>

\* variant: the loop also ends when l_k has a single entry
apriori_return_early ==
  /\ pc = "loop"
  /\ Len(l_k) <= 1
  /\ pc' = "rules"
  /\ UNCHANGED <<file, support, conf_threshold, c_1, all_baskets, l_1, l_k, k, c_k,
                 all_frequent_itemsets, all_itemsets_greater_than_1,
                 association_rules, gen_calls>>

\* the loop condition fails: apriori returns the two tables
apriori_return ==
  /\ pc = "loop"
  /\ Len(l_k) = 0
  /\ pc' = "rules"
  /\ UNCHANGED <<file, support, conf_threshold, c_1, all_baskets, l_1, l_k, k, c_k,
                 all_frequent_itemsets, all_itemsets_greater_than_1,
                 association_rules, gen_calls>>

\* __main__: generate_association_rules on the two tables apriori returned;
\* an exception raised by a lookup ends the program
mine_rules ==
  /\ pc = "rules"
  /\ LET r == generate_association_rules(all_frequent_itemsets,
                                         all_itemsets_greater_than_1, conf_threshold)
     IN  IF r.status = "ok"
           THEN association_rules' = r.rules /\ pc' = "done"
           ELSE association_rules' = association_rules /\ pc' = r.status
  /\ UNCHANGED <<file, support, conf_threshold, c_1, all_baskets, l_1, l_k, k, c_k,
                 all_frequent_itemsets, all_itemsets_greater_than_1, gen_calls>>

Next ==
  \/ Prompt
  \/ ReadFile
  \/ apriori_enter
  \/ apriori_level
  \/ apriori_return
  \/ mine_rules

Spec == Init /\ [][Next]_vars

\* ------------------------------------------------ filter_candidates alone
\* tables over a few keys of both shapes, with counts around the thresholds
FilterKeys == {Bare(1), Bare(2), Tup(<<1, 2>>)}
FilterVals == 0..(MaxSupport + 1)
FilterTables ==
  {c \in UNION {[1..n -> [key : FilterKeys, val : FilterVals]] : n \in 0..3} :
     \A i, j \in DOMAIN c : c[i].key = c[j].key => i = j}

FilterInit ==
  /\ pc = "filter_call"
  /\ c_k \in FilterTables
  /\ support \in SupportInputs
  /\ file = <<>>
  /\ conf_threshold = <<0, 1>>
  /\ c_1 = <<>>
  /\ all_baskets = <<>>
  /\ l_1 = <<>>
  /\ l_k = <<>>
  /\ k = 0
  /\ all_frequent_itemsets = <<>>
  /\ all_itemsets_greater_than_1 = <<>>
  /\ association_rules = <<>>
  /\ gen_calls = <<>>

FilterCall ==
  /\ pc = "filter_call"
  /\ l_k' = filter_candidates(c_k, support)
  /\ pc' = "filter_done"
  /\ UNCHANGED <<file, support, conf_threshold, c_1, all_baskets, l_1, k, c_k,
                 all_frequent_itemsets, all_itemsets_greater_than_1,
                 association_rules, gen_calls>>

FilterSpec == FilterInit /\ [][FilterCall]_vars

\* --------------------------------------------- generate_next_candidates alone
\* any list of set-valued baskets, any level-1 table, any k >= 2
BasketLists == UNION {[1..n -> SUBSET Items] : n \in 0..MaxRows}
L1Table(S) ==
  LET s == SortedList(S) IN [i \in DOMAIN s |-> [key |-> Bare(s[i]), val |-> 1]]

GenInit ==
  /\ pc = "gen_call"
  /\ all_baskets \in BasketLists
  /\ l_1 \in {L1Table(S) : S \in SUBSET Items}
  /\ k \in 2..(NumItems + 1)
  /\ c_k = <<>>
  /\ support = 0
  /\ file = <<>>
  /\ conf_threshold = <<0, 1>>
  /\ c_1 = <<>>
  /\ l_k = <<>>
  /\ all_frequent_itemsets = <<>>
  /\ all_itemsets_greater_than_1 = <<>>
  /\ association_rules = <<>>
  /\ gen_calls = <<>>

GenCall ==
  /\ pc = "gen_call"
  /\ c_k' = generate_next_candidates(all_baskets, l_1, k)
  /\ pc' = "gen_done"
  /\ UNCHANGED <<file, support, conf_threshold, c_1, all_baskets, l_1, l_k, k,
                 all_frequent_itemsets, all_itemsets_greater_than_1,
                 association_rules, gen_calls>>

GenSpec == GenInit /\ [][GenCall]_vars

\* ---------------------------------------------------------------- reference
\* Definitions the properties are stated with.  They are written directly
\* from the meaning of the words (support count, ascending tuple, subset) and
\* use none of the operators above.

Returned == pc \in {"rules", "done", "KeyError", "ZeroDivisionError"}

Pairs(d) == {<<d[i].key, d[i].val>> : i \in DOMAIN d}

NoDupKeys(d) == \A i, j \in DOMAIN d : d[i].key = d[j].key => i = j

\* number of baskets containing S as a subset
SupportCount(S) == Cardinality({i \in DOMAIN all_baskets : S \subseteq all_baskets[i]})

\* number of rows of the file in which item x occurs
RowsContaining(x) == Cardinality({i \in DOMAIN file : \E j \in DOMAIN file[i] : file[i][j] = x})

AscTuple(S) ==
  CHOOSE t \in [1..Cardinality(S) -> S] : \A i, j \in DOMAIN t : i < j => t[i] < t[j]

\* the key of itemset S: the bare item for size 1, the ascending tuple otherwise
KeyOf(S) == IF Cardinality(S) = 1 THEN Bare(CHOOSE x \in S : TRUE) ELSE Tup(AscTuple(S))

NonEmptyItemsets == (SUBSET Items) \ {{}}

MaxBasketSize ==
  IF all_baskets = <<>> THEN 0
  ELSE CHOOSE m \in 0..NumItems :
         /\ \E i \in DOMAIN all_baskets : Cardinality(all_baskets[i]) = m
         /\ \A i \in DOMAIN all_baskets : Cardinality(all_baskets[i]) <= m

\* c_1 holds, for every item of the corpus, the number of baskets containing it
C1IsBasketCounts ==
  Pairs(c_1) = {<<Bare(x), SupportCount({x})>> : x \in UNION Range(all_baskets)}

\* the tuple t restricted to the positions J, in t's order
SubTuple(t, J) ==
  LET pos == CHOOSE f \in [1..Cardinality(J) -> J] : \A i, j \in DOMAIN f : i < j => f[i] < f[j]
  IN  [m \in 1..Cardinality(J) |-> t[pos[m]]]

\* ------------------------------------------------------------------ claims

C1_WitnessExcluded ==
  /\ pc = "done" /\ support = 1 /\ C1IsBasketCounts
  /\ all_itemsets_greater_than_1 # <<>>
  /\ Len(l_1) < Len(c_1)

\* C2: filter_candidates(C, support) returns exactly the (itemset, count)
\* pairs of C with count > support, counts unchanged, nothing added, an
\* itemset whose count equals the threshold excluded, and C is not modified.
C2_FilterState ==
  pc = "filter_done" =>
    /\ Pairs(l_k) = {p \in Pairs(c_k) : p[2] > support}
    /\ NoDupKeys(l_k)
    /\ \A i \in DOMAIN c_k : c_k[i].val = support => c_k[i].key \notin {l_k[j].key : j \in DOMAIN l_k}

C3_RulesExact ==
  pc = "done" =>
    LET t == conf_threshold
        keySets == {Range(all_itemsets_greater_than_1[i].key.tup) :
                      i \in DOMAIN all_itemsets_greater_than_1}
        qualifies(I, A) == SupportCount(I) * t[2] > t[1] * SupportCount(A)
    IN  /\ \A i \in DOMAIN association_rules :
             LET r == association_rules[i]
                 I == r.antecedent \cup r.consequent
             IN  /\ I \in keySets
                 /\ r.antecedent # {} /\ r.consequent # {}
                 /\ r.antecedent \cap r.consequent = {}
                 /\ r.support = SupportCount(I)
                 /\ r.conf[1] * SupportCount(r.antecedent) = SupportCount(I) * r.conf[2]
                 /\ qualifies(I, r.antecedent)
        /\ \A I \in keySets : \A A \in (SUBSET I) \ {{}, I} :
             qualifies(I, A) =>
               Cardinality({i \in DOMAIN association_rules :
                              /\ association_rules[i].antecedent = A
                              /\ association_rules[i].consequent = I \ A}) = 1
        /\ \A i, j \in DOMAIN association_rules :
             (/\ association_rules[i].antecedent = association_rules[j].antecedent
              /\ association_rules[i].consequent = association_rules[j].consequent) => i = j

\* C4: at the loop head of apriori and after it returned, every key X of
\* size k >= 2 of AllFrequent has each of its size-(k-1) sub-combinations as a
\* key of AllFrequent (bare item when k-1 = 1), with a count strictly greater
\* than the support threshold and not smaller than the count of X.
C4_AntiMonotone ==
  (pc = "loop" \/ Returned) =>
    \A i \in DOMAIN all_frequent_itemsets :
      LET X == all_frequent_itemsets[i]
          n == Len(X.key.tup)
      IN  ~X.key.bare =>
            \A drop \in 1..n :
              LET sub == SubTuple(X.key.tup, (1..n) \ {drop})
                  subKey == IF n - 1 = 1 THEN Bare(sub[1]) ELSE Tup(sub)
              IN  \E p \in Pairs(all_frequent_itemsets) :
                    p[1] = subKey /\ p[2] > support /\ p[2] >= X.val

\* a frequent 3-itemset with a pair that is strictly more frequent
C4_Witness ==
  /\ pc = "loop"
  /\ \E i, j \in DOMAIN all_frequent_itemsets :
       /\ Len(all_frequent_itemsets[i].key.tup) = 3
       /\ Len(all_frequent_itemsets[j].key.tup) = 2
       /\ all_frequent_itemsets[j].val > all_frequent_itemsets[i].val

\* C5: the level loop of apriori terminates for every support threshold: the
\* level counter k never exceeds (size of the largest basket) + 2 and grows
\* with every pass.
C5_KBounded == (pc = "loop" \/ Returned) => k <= MaxBasketSize + 2

\* every pass through the loop either raises k by one or leaves the loop, so
\* with the bound above at most MaxBasketSize + 1 passes are made
C5_LoopStep == pc = "loop" => (pc' = "rules" \/ (pc' = "loop" /\ k' = k + 1))

C5_Terminates == [](C5_KBounded) /\ [][C5_LoopStep]_vars

\* the loop ran up to the largest possible level under a negative threshold
C5_Witness ==
  /\ pc = "rules" /\ support < 0
  /\ MaxBasketSize = 3 /\ k = MaxBasketSize + 2

\* C6: C_1[item] equals the number of rows (baskets) containing the item,
\* also when a row lists the item more than once.
C6_CountsAreBasketCounts ==
  (pc \notin {"prompt", "read", "terminated"}) =>
    /\ C1IsBasketCounts
    /\ \A i \in DOMAIN c_1 : c_1[i].val = RowsContaining(c_1[i].key.tup[1])

\* C7: the missing-antecedent error is unreachable: for every key I of
\* FrequentAboveOne and every i in 1..|I|-1, each i-combination of I in I's
\* tuple order is a key of AllFrequent under the key shape of the lookup.
C7_NoMissingAntecedent ==
  /\ pc # "KeyError"
  /\ Returned =>
       \A e \in DOMAIN all_itemsets_greater_than_1 :
         LET I == all_itemsets_greater_than_1[e].key.tup
         IN  \A J \in (SUBSET (1..Len(I))) \ {{}, 1..Len(I)} :
               LET c == SubTuple(I, J)
               IN  (IF Len(c) = 1 THEN Bare(c[1]) ELSE Tup(c))
                     \in {p[1] : p \in Pairs(all_frequent_itemsets)}

\* rules were mined from a frequent 3-itemset: lookups of sizes 1 and 2 happened
C7_Witness ==
  /\ pc = "done"
  /\ \E e \in DOMAIN all_itemsets_greater_than_1 :
       Len(all_itemsets_greater_than_1[e].key.tup) = 3
  /\ association_rules # <<>>

\* C8: candidate generation is requested for levels 2, 3, 4, ... in
\* increasing order, each once; level k+1 is generated iff the computed L_k
\* is non-empty; the loop stops the first time a computed L_k is empty; with
\* L_1 empty nothing is generated and both returned tables are empty.
LevelKeys(n) ==
  {p \in Pairs(all_frequent_itemsets) : ~p[1].bare /\ Len(p[1].tup) = n}

C8_OrderState ==
  (pc = "loop" \/ Returned) =>
    /\ gen_calls = [i \in 1..Len(gen_calls) |-> i + 1]
    /\ k = Len(gen_calls) + 2
    /\ \A i \in 1..(Len(gen_calls) - 1) : LevelKeys(gen_calls[i]) # {}
    /\ (gen_calls = <<>>) => Pairs(l_k) = Pairs(l_1)
    /\ (gen_calls # <<>>) => Pairs(l_k) = LevelKeys(gen_calls[Len(gen_calls)])
    /\ Returned => l_k = <<>>
    /\ (Returned /\ l_1 = <<>>) =>
         /\ gen_calls = <<>>
         /\ all_frequent_itemsets = <<>>
         /\ all_itemsets_greater_than_1 = <<>>

C8_OrderStep ==
  pc = "loop" =>
    IF l_k # <<>>
      THEN gen_calls' = Append(gen_calls, k) /\ pc' = "loop"
      ELSE gen_calls' = gen_calls /\ pc' = "rules"

C8_LevelOrdering == [](C8_OrderState) /\ [][C8_OrderStep]_vars

\* three levels were generated in a row, the last one empty
C8_Witness == pc = "rules" /\ gen_calls = <<2, 3, 4>>

\* the other end: an empty L_1 although the corpus has items
C8_WitnessEmpty == pc = "rules" /\ l_1 = <<>> /\ c_1 # <<>>

\* C9: generate_next_candidates returns the table whose keys are exactly the
\* strictly ascending k-tuples of items that are keys of L_1 and are together
\* contained in at least one basket, each mapped to the number of baskets
\* containing all of its items.
C9_CandidatesExact ==
  pc = "gen_done" =>
    LET l1Items == {x \in Items : \E p \in Pairs(l_1) : p[1] = Bare(x)}
    IN  /\ NoDupKeys(c_k)
        /\ Pairs(c_k) =
             {<<Tup(AscTuple(S)), SupportCount(S)>> :
                S \in {T \in SUBSET l1Items :
                         Cardinality(T) = k /\ SupportCount(T) >= 1}}

\* a candidate counted in two baskets, next to an empty basket and a basket
\* holding an item outside L_1
C9_Witness ==
  /\ pc = "gen_done"
  /\ \E i \in DOMAIN c_k : c_k[i].val = 2
  /\ \E i \in DOMAIN all_baskets :
       \E x \in all_baskets[i] : \A p \in Pairs(l_1) : p[1] # Bare(x)

\* a pass with an empty basket and a basket too small for k
C9_WitnessSmall ==
  /\ pc = "gen_done" /\ c_k # <<>>
  /\ \E i, j \in DOMAIN all_baskets :
       all_baskets[i] = {} /\ Cardinality(all_baskets[j]) >= k

\* C10 as stated: with exactly one item in L_1, apriori performs no level-2
\* candidate generation and returns AllFrequent = L_1, FrequentAboveOne empty.
C10_NoLevel2Attempt ==
  (Returned /\ Len(l_1) = 1) =>
    /\ gen_calls = <<>>
    /\ all_frequent_itemsets = l_1
    /\ all_itemsets_greater_than_1 = <<>>

\* C10 amended: with exactly one item in L_1, apriori performs exactly one
\* candidate generation, for level 2, which yields an empty C_2, and returns
\* AllFrequent = L_1, FrequentAboveOne empty.
C10_Level2Empty ==
  (Returned /\ Len(l_1) = 1) =>
    /\ gen_calls = <<2>>
    /\ c_k = <<>>
    /\ all_frequent_itemsets = l_1
    /\ all_itemsets_greater_than_1 = <<>>

\* one frequent item in a corpus whose baskets hold other items too
C10_Witness ==
  /\ pc = "done" /\ Len(l_1) = 1
  /\ \E i \in DOMAIN all_baskets : Cardinality(all_baskets[i]) >= 2
====
